---- MODULE Spec2Model ----
(***************************************************************************)
(* Model of HttpFile (gobs/httpclient, src/unnamed/part_003 lines 91-465): *)
(* a seekable, file-like reader over an HTTP resource that uses ranged     *)
(* GETs, follows redirects by hand, retries CDN-throttled requests and     *)
(* recovers from expired signed URLs.                                      *)
(*                                                                         *)
(* One call of a method is a sequence of steps: the call itself (up to its *)
(* first HTTP request), one step per pass through the retry_redir label    *)
(* and per iteration of the request loop of HttpFile.do, one step for the  *)
(* caller's code after do has returned, and the return.  The server is the *)
(* environment: every request is answered by any response of Responses.    *)
(***************************************************************************)
EXTENDS Integers, Sequences, FiniteSets, TLC

(***************************************************************************)
(* Bounds of the model.                                                    *)
(***************************************************************************)
ResLen == 5        \* size of the remote resource, in bytes
MaxBuf == 3        \* largest capacity of HttpFile.Buffer
MaxP == 4          \* largest destination slice handed to Read / ReadAt
MaxOff == 6        \* largest offset handed to ReadAt / reached by Seek
MaxCount == 2      \* the per-call redirect / expiry counters saturate here

(***************************************************************************)
(* Program constants.                                                      *)
(***************************************************************************)
HttpFileRetries == 10

Data == [i \in 1..ResLen |-> i]    \* the resource: byte i-1 has value i
Urls == {"u0", "u1"}               \* u0 is the URL given to OpenHttpFile
Zeros(n) == [i \in 1..n |-> 0]
Min(a, b) == IF a < b THEN a ELSE b
Bump(n) == Min(n + 1, MaxCount)

VARIABLES
    retrying,       \* environment: the server may redirect and throttle (fixed by Init)
    Url,            \* HttpFile.Url
    origUrl,        \* HttpFile.origUrl
    client,         \* "unopened" (no HttpFile yet), "open", "nil" (closed)
    pos,            \* HttpFile.pos
    len,            \* HttpFile.len
    BufferSet,      \* HttpFile.Buffer != nil
    Buffer,         \* HttpFile.Buffer (<<>> when nil): its bytes inside the window
                    \*   [bstart, bend); the bytes outside it, which the code never
                    \*   reads before it overwrites them, are kept as 0
    bpos,           \* HttpFile.bpos
    bstart,         \* HttpFile.bstart
    bend,           \* HttpFile.bend
    op,             \* the method being executed: "none", "Open", "Read", "ReadAt", "Seek", "Close"
    pc,             \* "idle", "retry_redir", "loop", "do_ret", "done", "panic"
    method,         \* do: the method argument
    range,          \* do: the Range header <<first, last>>, <<>> when absent
    reqUrl,         \* do: the URL of req, the request built at retry_redir
    redirect,       \* do: local redirect
    retry,          \* do: local retry
    res,            \* do: resp and err of the last f.client.Do (none before the first)
    p,              \* the caller's destination slice
    off,            \* the off argument of ReadAt (the cursor, for Read)
    ppos,           \* readFromBuffer: local ppos
    drop,           \* readFromBuffer: local drop (0 when the window is not shifted)
    offset,         \* the offset argument of Seek
    whence,         \* the whence argument of Seek
    mode,           \* which readAt is outstanding: "plain", "direct", "refill"
    retN,           \* the n (or position) the method returns
    retErr,         \* the error the method returns
    nreq,           \* observer: requests sent since the request was last built
    nsleep,         \* observer: time.Sleep calls since the request was last built
    nredir,         \* observer: redirects followed in this call of do (saturating)
    nexp,           \* observer: expiry recoveries in this call of do (saturating)
    reqs,           \* observer: requests sent by the running method (saturating)
    nclose,         \* observer: Close calls made on the stream (saturating)
    honest,         \* observer: every request since open was answered as a range-honouring server answers it
    seqStart,       \* observer, kept while honest (else -1): the cursor at which the
                    \*   current run of consecutive Read calls began
    seqGot          \* observer, kept while honest (else <<>>): the bytes those Read
                    \*   calls have delivered, in order

\* HttpClient (src/httpclient.go)
VARIABLES
    FollowRedirects,    \* HttpClient.FollowRedirects
    HeadRedirects,      \* HttpClient.HeadRedirects
    Transport,          \* HttpClient.client.Transport
    hcop,               \* the HttpClient method called last: "none", "SetTransport",
                        \*   "StartLogging", "StopLogging", "Do"
    hcpc,               \* HttpClient.Do: "idle", "send", "ret", "done"
    hcMethod,           \* Do: req.Method
    via,                \* http.Client.Do: the requests sent so far (len(via) in checkRedirect)
    hdrs,               \* observer: addHeaders calls made by checkRedirect in this Do
    clientRes,          \* Do: resp and err of self.client.Do(req)
    hcRet,              \* Do: what HttpClient.Do returns
    logArgs             \* the arguments of the last StartLogging, <<>> after another method

file == <<Url, origUrl, client, pos, len>>
buf == <<BufferSet, Buffer, bpos, bstart, bend>>
dolocals == <<method, range, reqUrl, redirect, retry, res>>
rdlocals == <<p, off, ppos, drop, mode>>
sklocals == <<offset, whence>>
rets == <<retN, retErr>>
obs == <<nreq, nsleep, nredir, nexp, reqs>>
run == <<seqStart, seqGot>>
filevars == <<retrying, file, buf, op, pc, dolocals, rdlocals, sklocals, rets, obs, nclose,
              honest, run>>
hcvars == <<FollowRedirects, HeadRedirects, Transport, hcop, hcpc, hcMethod, via, hdrs,
            clientRes, hcRet, logArgs>>
vars == <<filevars, hcvars>>

NoRes == [st |-> 0, err |-> "nil", loc |-> "", xcache |-> FALSE, amz |-> FALSE,
          expired |-> FALSE, readErr |-> FALSE, body |-> <<>>, bodyEnd |-> "EOF",
          cr |-> <<>>, clen |-> -1]

\* a nil response with a nil error
NoResp == [st |-> 0, err |-> "nil"]

\* the transports a caller can install; t0 is the clone of the default transport
Transports == {"t0", "t1"}

\* the *http.Transport t as the client's transport
PlainTransport(t) ==
    [logging |-> FALSE, t |-> t, requestBody |-> FALSE, responseBody |-> FALSE,
     timing |-> FALSE]

\* NewHttpClient(base)
NewHttpClient ==
    /\ FollowRedirects = TRUE /\ HeadRedirects = FALSE
    /\ Transport = PlainTransport("t0")
    /\ hcop = "none" /\ hcpc = "idle" /\ hcMethod = "" /\ via = 0 /\ hdrs = 0
    /\ clientRes = NoResp /\ hcRet = NoResp /\ logArgs = <<>>

\* a new HttpClient and no HttpFile yet; e tells whether the server is one
\* that redirects and throttles
InitEnv(e) ==
    /\ NewHttpClient
    /\ retrying = e
    /\ Url = "" /\ origUrl = "" /\ client = "unopened" /\ pos = 0 /\ len = -1
    /\ BufferSet = FALSE /\ Buffer = <<>> /\ bpos = 0 /\ bstart = 0 /\ bend = 0
    /\ op = "none" /\ pc = "idle"
    /\ method = "" /\ range = <<>> /\ reqUrl = "" /\ redirect = FALSE /\ retry = 0 /\ res = NoRes
    /\ p = <<>> /\ off = 0 /\ ppos = 0 /\ drop = 0 /\ mode = "plain"
    /\ offset = 0 /\ whence = 0
    /\ retN = 0 /\ retErr = "nil"
    /\ nreq = 0 /\ nsleep = 0 /\ nredir = 0 /\ nexp = 0 /\ reqs = 0 /\ nclose = 0
    /\ honest = TRUE
    /\ seqStart = 0 /\ seqGot = <<>>

Init == InitEnv(FALSE)
InitFetch == InitEnv(TRUE)

(***************************************************************************)
(* The server.                                                             *)
(***************************************************************************)
\* the Range header <<first, last>> names bytes of the resource
Satisfiable(r) == Len(r) = 2 /\ 0 <= r[1] /\ r[1] <= r[2] /\ r[1] < ResLen

\* the bytes a server that honours the Range header sends for it
RangeBytes(r) == [i \in 1..(Min(r[2], ResLen - 1) - r[1] + 1) |-> Data[r[1] + i]]

\* Content-Range header values: "bytes first-last/total" as <<first, last, total>>,
\* "bytes */total" as <<total>>, <<>> for a response without the header
WellFormed(r) == <<r[1], Min(r[2], ResLen - 1), ResLen>>

\* the answer of a server that honours range requests
HonestResponse(m, r) ==
    IF m = "HEAD" THEN [NoRes EXCEPT !.st = 200, !.clen = ResLen]
    ELSE IF Satisfiable(r)
         THEN [NoRes EXCEPT !.st = 206, !.body = RangeBytes(r), !.cr = WellFormed(r),
                            !.clen = Len(RangeBytes(r))]
         ELSE [NoRes EXCEPT !.st = 416, !.cr = <<ResLen>>, !.clen = 0]

Redirects == {[NoRes EXCEPT !.st = 302, !.err = "NoRedirect", !.loc = u] : u \in Urls}
Throttled == [NoRes EXCEPT !.st = 403, !.xcache = TRUE]
Forbidden ==
    {[NoRes EXCEPT !.st = 403, !.amz = a, !.expired = e, !.readErr = x] :
        a \in BOOLEAN, e \in BOOLEAN, x \in BOOLEAN}
OtherStatus == {[NoRes EXCEPT !.st = s] : s \in {404, 416, 500}}
TransportError == [NoRes EXCEPT !.err = "neterr"]
\* a 200 with or without Content-Length: the server ignored the Range header
\* and a GET is answered with the whole resource
Plain200(m) ==
    {[NoRes EXCEPT !.st = 200, !.clen = c, !.body = IF m = "HEAD" THEN <<>> ELSE Data] :
        c \in {ResLen, -1}}
\* a 206 whose body stops early (EOF or a broken connection), or whose
\* Content-Range is missing or is not "bytes %d-%d/%d"
Partial206(r) ==
    IF ~Satisfiable(r) THEN {}
    ELSE {[NoRes EXCEPT !.st = 206, !.body = SubSeq(RangeBytes(r), 1, k), !.bodyEnd = e,
                        !.cr = c, !.clen = Len(RangeBytes(r))] :
            k \in 0..Len(RangeBytes(r)), e \in {"EOF", "broken"},
            c \in {WellFormed(r), <<ResLen>>}}

\* what a request can be answered with: anything when the server is a
\* retrying one, anything but a redirect and a throttling 403 otherwise
Responses(m, r) ==
    {HonestResponse(m, r)} \cup Forbidden \cup OtherStatus \cup {TransportError}
        \cup Plain200(m) \cup Partial206(r)
        \cup (IF retrying THEN Redirects \cup {Throttled} ELSE {})

(***************************************************************************)
(* HttpFile.do                                                             *)
(***************************************************************************)
\* the mutant of DoBuild: the request is built for the original URL
DoBuildOrig ==
    /\ pc = "retry_redir"
    /\ reqUrl' = origUrl
    /\ redirect' = FALSE
    /\ retry' = 0
    /\ nreq' = 0 /\ nsleep' = 0
    /\ pc' = "loop"
    /\ res' = NoRes
    /\ UNCHANGED <<hcvars, retrying, sklocals, nclose, file, buf, op, method, range, rdlocals, rets,
                   nredir, nexp, reqs, honest, run>>

\* retry_redir: build the request for f.Url; redirect := false; retry := 0
DoBuild ==
    /\ pc = "retry_redir"
    /\ reqUrl' = Url
    /\ redirect' = FALSE
    /\ retry' = 0
    /\ nreq' = 0 /\ nsleep' = 0
    /\ pc' = "loop"
    /\ res' = NoRes
    /\ UNCHANGED <<hcvars, retrying, sklocals, nclose, file, buf, op, method, range, rdlocals, rets,
                   nredir, nexp, reqs, honest, run>>

\* the mutant of MayRetry: one attempt too many
MayRetryInclusive(rt) == rt <= HttpFileRetries

\* retry < HttpFileRetries: another attempt follows the throttled one
MayRetry(rt) == rt < HttpFileRetries

\* the mutant of ExpiredBody: the marker counts also when the body could not be read
ExpiredBodyUnread(r) == r.amz /\ r.expired

\* the mutant of ExpiredBody: the marker counts also without X-AMZ-Request-ID
ExpiredBodyAny(r) == ~r.readErr /\ r.expired

\* the body of the 403 has the expiry marker and could be read without error
ExpiredBody(r) == r.amz /\ ~r.readErr /\ r.expired

\* one iteration of the for loop: f.client.Do(req) and what follows it
DoLoop ==
    /\ pc = "loop"
    /\ \E r \in Responses(method, range) :
        /\ nreq' = nreq + 1
        /\ reqs' = Bump(reqs)
        /\ honest' = (honest /\ r = HonestResponse(method, range))
        /\ seqStart' = IF honest' THEN seqStart ELSE -1
        /\ seqGot' = IF honest' THEN seqGot ELSE <<>>
        /\ IF r.err = "NoRedirect"
           THEN IF redirect
                THEN /\ pc' = "do_ret"
                     /\ UNCHANGED <<Url, redirect, retry, nsleep, nredir, nexp>>
                ELSE /\ redirect' = TRUE
                     /\ Url' = r.loc
                     /\ nredir' = Bump(nredir)
                     /\ pc' = "retry_redir"
                     /\ UNCHANGED <<retry, nsleep, nexp>>
           ELSE IF r.err # "nil"
           THEN /\ pc' = "do_ret"
                /\ UNCHANGED <<Url, redirect, retry, nsleep, nredir, nexp>>
           ELSE IF r.st = 403 /\ r.xcache
           THEN /\ retry' = retry + 1
                /\ IF MayRetry(retry + 1)
                   THEN /\ nsleep' = nsleep + 1
                        /\ pc' = "loop"
                   ELSE /\ pc' = "do_ret"
                        /\ UNCHANGED nsleep
                /\ UNCHANGED <<Url, redirect, nredir, nexp>>
           ELSE IF r.st = 403 /\ ExpiredBody(r) /\ Url # origUrl
           THEN /\ Url' = origUrl
                /\ nexp' = Bump(nexp)
                /\ pc' = "retry_redir"
                /\ UNCHANGED <<redirect, retry, nsleep, nredir>>
           ELSE /\ pc' = "do_ret"
                /\ UNCHANGED <<Url, redirect, retry, nsleep, nredir, nexp>>
        /\ res' = r
    /\ UNCHANGED <<hcvars, retrying, sklocals, nclose, origUrl, client, pos, len, buf, op, method, range,
                   reqUrl,
                   rdlocals, rets>>

(***************************************************************************)
(* Helpers of the callers of do.                                           *)
(***************************************************************************)
\* the mutant of getContentRange: the total is taken from the 'last' field
getContentRangeLast(r) ==
    IF Len(r.cr) = 3 THEN <<r.cr[1], r.cr[2], r.cr[2], "nil">>
    ELSE <<-1, -1, -1, "ParseError">>

\* fmt.Sscanf(content_range, "bytes %d-%d/%d", ...): <<first, last, total, err>>
getContentRange(r) ==
    IF Len(r.cr) = 3 THEN <<r.cr[1], r.cr[2], r.cr[3], "nil">>
    ELSE <<-1, -1, -1, "ParseError">>

\* io.ReadFull(resp.Body, dst) for a destination of dl bytes: <<n, err>>
ReadFull(r, dl) ==
    LET n == Min(Len(r.body), dl)
    IN  IF n = dl THEN <<n, "nil">>
        ELSE IF r.bodyEnd = "broken" THEN <<n, "neterr">>
        ELSE IF n = 0 THEN <<0, "EOF">>
        ELSE <<n, "ErrUnexpectedEOF">>

\* the mutant of Finish: the cursor follows every read, ReadAt included
FinishMovesCursor(o, n, e) ==
    /\ pc' = "done"
    /\ retN' = n
    /\ retErr' = e
    /\ pos' = IF n > 0 THEN pos + n ELSE pos
    /\ seqStart' = IF o = "Read" \/ ~honest \/ client # "open" THEN seqStart ELSE pos
    /\ seqGot' = IF o # "Read" \/ ~honest \/ client # "open" THEN <<>>
                 ELSE IF n > 0 THEN seqGot \o SubSeq(p', 1, n) ELSE seqGot
    /\ UNCHANGED <<method, range>>

\* the mutant of Finish: the cursor follows only a Read without error
FinishOnlyOnSuccess(o, n, e) ==
    /\ pc' = "done"
    /\ retN' = n
    /\ retErr' = e
    /\ pos' = IF o = "Read" /\ n > 0 /\ e = "nil" THEN pos + n ELSE pos
    /\ seqStart' = IF o = "Read" \/ ~honest \/ client # "open" THEN seqStart ELSE pos
    /\ seqGot' = IF o # "Read" \/ ~honest \/ client # "open" THEN <<>>
                 ELSE IF n > 0 THEN seqGot \o SubSeq(p', 1, n) ELSE seqGot
    /\ UNCHANGED <<method, range>>

\* the method o (Read or ReadAt) returns (n, e); Read moves the cursor by n
\* when n > 0 and its bytes extend the run of Reads, ReadAt ends that run
Finish(o, n, e) ==
    /\ pc' = "done"
    /\ retN' = n
    /\ retErr' = e
    /\ pos' = IF o = "Read" /\ n > 0 THEN pos + n ELSE pos
    /\ seqStart' = IF o = "Read" \/ ~honest \/ client # "open" THEN seqStart ELSE pos
    /\ seqGot' = IF o # "Read" \/ ~honest \/ client # "open" THEN <<>>
                 ELSE IF n > 0 THEN seqGot \o SubSeq(p', 1, n) ELSE seqGot
    /\ UNCHANGED <<method, range>>

\* panic("should not get here"): the program stops
Panic ==
    /\ pc' = "panic"
    /\ retN' = 0
    /\ retErr' = "panic"
    /\ UNCHANGED <<pos, run, method, range>>

\* f.do(m, headers) is called
CallDo(m, r) ==
    /\ pc' = "retry_redir"
    /\ method' = m
    /\ range' = r
    /\ UNCHANGED <<rets, pos, run>>

\* the mutant of ReadAtEntry: the end of the range is not clamped to the length
ReadAtEntryNoClamp(o, dl, roff) ==
    IF client = "nil" THEN Finish(o, 0, "ErrInvalid")
    ELSE IF dl <= 0 THEN Finish(o, dl, "nil")
    ELSE CallDo("GET", <<roff, roff + dl - 1>>)

\* the mutant of ReadAtEntry: readAt without the test of f.client
ReadAtEntryNoCheck(o, dl, roff) ==
    IF dl <= 0 THEN Finish(o, dl, "nil")
    ELSE CallDo("GET", <<roff, Min(roff + dl, len) - 1>>)

\* readAt(dst, roff) up to its call of do, for a destination of dl bytes
ReadAtEntry(o, dl, roff) ==
    IF client = "nil" THEN Finish(o, 0, "ErrInvalid")
    ELSE IF dl <= 0 THEN Finish(o, dl, "nil")
    ELSE CallDo("GET", <<roff, Min(roff + dl, len) - 1>>)

\* the mutant of ReadAtResult: the body of a 200 is read like that of a 206
ReadAtResultReads200(r, dl) ==
    IF r.err # "nil" THEN <<0, "HttpFileError">>
    ELSE IF r.st = 416 THEN <<0, "EOF">>
    ELSE IF r.st # 206 /\ r.st # 200 THEN <<0, "UnexpectedStatus">>
    ELSE LET nf == ReadFull(r, dl)
         IN  IF nf[1] > 0 /\ nf[2] = "EOF" THEN <<nf[1], "nil">> ELSE nf

\* readAt after do has returned r: <<n, err>> for a destination of dl bytes
ReadAtResult(r, dl) ==
    IF r.err # "nil" THEN <<0, "HttpFileError">>
    ELSE IF r.st = 416 THEN <<0, "EOF">>
    ELSE IF r.st # 206 THEN <<0, "UnexpectedStatus">>
    ELSE LET nf == ReadFull(r, dl)
         IN  IF nf[1] > 0 /\ nf[2] = "EOF" THEN <<nf[1], "nil">> ELSE nf

(***************************************************************************)
(* OpenHttpFile                                                            *)
(***************************************************************************)
\* OpenHttpFile(url, headers) up to its call of do
OpenHttpFile ==
    /\ pc = "idle" /\ client = "unopened"
    /\ op' = "Open"
    /\ Url' = "u0" /\ origUrl' = "u0" /\ client' = "open" /\ len' = -1
    /\ \E HttpFileNoHead \in BOOLEAN :
        IF HttpFileNoHead THEN CallDo("GET", <<0, 0>>) ELSE CallDo("HEAD", <<>>)
    /\ UNCHANGED <<hcvars, retrying, sklocals, nclose, buf, redirect, retry, res, reqUrl, rdlocals, obs, honest>>

\* the open failed with error e: no HttpFile is returned
OpenFails(e) ==
    /\ Url' = "" /\ origUrl' = "" /\ client' = "unopened" /\ len' = -1
    /\ retErr' = e

\* OpenHttpFile after do has returned
OpenAfterDo ==
    /\ pc = "do_ret" /\ op = "Open"
    /\ pc' = "done"
    /\ IF res.err # "nil" THEN OpenFails("HttpFileError")
       ELSE IF res.st = 404 THEN OpenFails("ErrNotExist")
       ELSE IF res.st = 200
            THEN len' = res.clen /\ retErr' = "nil" /\ UNCHANGED <<Url, origUrl, client>>
       ELSE IF res.st = 206
            THEN IF getContentRange(res)[4] # "nil"
                 THEN OpenFails(getContentRange(res)[4])
                 ELSE /\ len' = getContentRange(res)[3] /\ retErr' = "nil"
                      /\ UNCHANGED <<Url, origUrl, client>>
       ELSE OpenFails("UnexpectedStatus")
    /\ UNCHANGED <<hcvars, retrying, sklocals, nclose, pos, buf, op, dolocals, rdlocals, retN, obs, honest, run>>

\* the caller gives the stream a look-ahead buffer: f.Buffer = make([]byte, c)
SetBuffer ==
    /\ pc = "idle" /\ client = "open" /\ ~BufferSet
    /\ \E c \in 0..MaxBuf :
        /\ BufferSet' = TRUE
        /\ Buffer' = Zeros(c)
    /\ UNCHANGED <<hcvars, retrying, sklocals, nclose, file, bpos, bstart, bend, op, pc, dolocals, rdlocals,
                   rets, obs, honest, run>>

(***************************************************************************)
(* readFromBuffer, ReadAt, Read                                            *)
(***************************************************************************)
\* the buffer B with window [s, e): the bytes f.Buffer[s:e] that a copy can read
Resident(B, s, e) == [i \in 1..Len(B) |-> IF s < i /\ i <= e THEN B[i] ELSE 0]

\* the mutant of LoopPass: a remainder of exactly len(f.Buffer) bypasses the buffer
LoopPassBypass(o, B, pIn, pposIn, bposIn, bstartIn, bendIn) ==
    LET plen == Len(pIn)
        n == IF bstartIn < bendIn THEN Min(plen - pposIn, bendIn - bstartIn) ELSE 0
        p1 == [i \in 1..plen |->
                 IF pposIn < i /\ i <= pposIn + n THEN B[bstartIn + i - pposIn] ELSE pIn[i]]
        ppos1 == pposIn + n
        bpos1 == bposIn + n
    IN  /\ p' = p1 /\ ppos' = ppos1 /\ bpos' = bpos1
        /\ IF pposIn >= plen
           THEN /\ bstart' = bstartIn /\ bend' = bendIn
                /\ UNCHANGED mode
                /\ Panic
           ELSE IF bstartIn < bendIn /\ ppos1 >= plen
           THEN /\ bstart' = bstartIn + n /\ bend' = bendIn
                /\ UNCHANGED mode
                /\ Finish(o, ppos1, "nil")
           ELSE IF plen - ppos1 >= Len(B)
           THEN /\ bstart' = 0 /\ bend' = 0
                /\ mode' = "direct"
                /\ ReadAtEntry(o, plen - ppos1, bpos1)
           ELSE /\ mode' = "refill"
                /\ IF client = "nil"
                   THEN bstart' = 0 /\ bend' = 0 /\ Finish(o, 0, "ErrInvalid")
                   ELSE /\ bstart' = bstartIn + n /\ bend' = bendIn
                        /\ ReadAtEntry(o, Len(B), bpos1)
        /\ Buffer' = Resident(B, bstart', bend')

\* the mutant of LoopPass: a read served from the window leaves bstart where it was
LoopPassNoAdvance(o, B, pIn, pposIn, bposIn, bstartIn, bendIn) ==
    LET plen == Len(pIn)
        n == IF bstartIn < bendIn THEN Min(plen - pposIn, bendIn - bstartIn) ELSE 0
        p1 == [i \in 1..plen |->
                 IF pposIn < i /\ i <= pposIn + n THEN B[bstartIn + i - pposIn] ELSE pIn[i]]
        ppos1 == pposIn + n
        bpos1 == bposIn + n
    IN  /\ p' = p1 /\ ppos' = ppos1 /\ bpos' = bpos1
        /\ IF pposIn >= plen
           THEN /\ bstart' = bstartIn /\ bend' = bendIn
                /\ UNCHANGED mode
                /\ Panic
           ELSE IF bstartIn < bendIn /\ ppos1 >= plen
           THEN /\ bstart' = bstartIn /\ bend' = bendIn
                /\ UNCHANGED mode
                /\ Finish(o, ppos1, "nil")
           ELSE IF plen - ppos1 > Len(B)
           THEN /\ bstart' = 0 /\ bend' = 0
                /\ mode' = "direct"
                /\ ReadAtEntry(o, plen - ppos1, bpos1)
           ELSE /\ mode' = "refill"
                /\ IF client = "nil"
                   THEN bstart' = 0 /\ bend' = 0 /\ Finish(o, 0, "ErrInvalid")
                   ELSE /\ bstart' = bstartIn + n /\ bend' = bendIn
                        /\ ReadAtEntry(o, Len(B), bpos1)
        /\ Buffer' = Resident(B, bstart', bend')

\* one pass of the for loop of readFromBuffer, from its head to the return
\* or to the call of do inside readAt; B is f.Buffer
LoopPass(o, B, pIn, pposIn, bposIn, bstartIn, bendIn) ==
    LET plen == Len(pIn)
        n == IF bstartIn < bendIn THEN Min(plen - pposIn, bendIn - bstartIn) ELSE 0
        p1 == [i \in 1..plen |->
                 IF pposIn < i /\ i <= pposIn + n THEN B[bstartIn + i - pposIn] ELSE pIn[i]]
        ppos1 == pposIn + n
        bpos1 == bposIn + n
    IN  /\ p' = p1 /\ ppos' = ppos1 /\ bpos' = bpos1
        /\ IF pposIn >= plen
           THEN /\ bstart' = bstartIn /\ bend' = bendIn
                /\ UNCHANGED mode
                /\ Panic
           ELSE IF bstartIn < bendIn /\ ppos1 >= plen
           THEN /\ bstart' = bstartIn + n /\ bend' = bendIn
                /\ UNCHANGED mode
                /\ Finish(o, ppos1, "nil")
           ELSE IF plen - ppos1 > Len(B)
           THEN /\ bstart' = 0 /\ bend' = 0
                /\ mode' = "direct"
                /\ ReadAtEntry(o, plen - ppos1, bpos1)
           ELSE /\ mode' = "refill"
                /\ IF client = "nil"
                   THEN bstart' = 0 /\ bend' = 0 /\ Finish(o, 0, "ErrInvalid")
                   ELSE /\ bstart' = bstartIn + n /\ bend' = bendIn
                        /\ ReadAtEntry(o, Len(B), bpos1)
        /\ Buffer' = Resident(B, bstart', bend')

\* the mutant of readFromBuffer: the stale prefix of the window is not dropped
readFromBufferNoShift(o, pIn, a) ==
    IF Len(pIn) = 0
    THEN /\ p' = pIn /\ ppos' = 0 /\ UNCHANGED <<Buffer, bpos, bstart, bend, drop, mode>>
         /\ Finish(o, 0, "nil")
    ELSE LET blen == bend - bstart
             keep == a # bpos /\ blen # 0 /\ bpos < a /\ bpos + blen > a
             bstartA == IF a = bpos \/ keep THEN bstart ELSE 0
             bendA == IF a = bpos \/ keep THEN bend ELSE 0
         IN  /\ drop' = IF keep THEN a - bpos ELSE 0
             /\ LoopPass(o, Buffer, pIn, 0, a, bstartA, bendA)

\* readFromBuffer(p, a) up to the first call of do
readFromBuffer(o, pIn, a) ==
    IF Len(pIn) = 0
    THEN /\ p' = pIn /\ ppos' = 0 /\ UNCHANGED <<Buffer, bpos, bstart, bend, drop, mode>>
         /\ Finish(o, 0, "nil")
    ELSE LET blen == bend - bstart
             keep == a # bpos /\ blen # 0 /\ bpos < a /\ bpos + blen > a
             bstartA == IF a = bpos THEN bstart
                        ELSE IF keep THEN bstart + (a - bpos) ELSE 0
             bendA == IF a = bpos \/ keep THEN bend ELSE 0
         IN  /\ drop' = IF keep THEN a - bpos ELSE 0
             /\ LoopPass(o, Buffer, pIn, 0, a, bstartA, bendA)

\* the mutant of ReadAtFrom: readFromBuffer is used without the test of f.Buffer
ReadAtFromBuffered(o, n, a) ==
    /\ pc = "idle" /\ client # "unopened"
    /\ op' = o
    /\ off' = a
    /\ readFromBuffer(o, Zeros(n), a)
    /\ UNCHANGED <<hcvars, retrying, sklocals, nclose, Url, origUrl, client, len, BufferSet,
                   redirect, retry, res, reqUrl, obs, honest>>

\* ReadAt(p, a) for op o = "ReadAt", Read(p) at a = f.pos for o = "Read"
ReadAtFrom(o, n, a) ==
    /\ pc = "idle" /\ client # "unopened"
    /\ op' = o
    /\ off' = a
    /\ IF BufferSet
       THEN readFromBuffer(o, Zeros(n), a)
       ELSE /\ p' = Zeros(n) /\ ppos' = 0 /\ mode' = "plain"
            /\ UNCHANGED <<Buffer, bpos, bstart, bend, drop>>
            /\ ReadAtEntry(o, n, a)
    /\ UNCHANGED <<hcvars, retrying, sklocals, nclose, Url, origUrl, client, len, BufferSet,
                   redirect, retry, res, reqUrl, obs, honest>>

ReadAt == \E n \in 0..MaxP, a \in 0..MaxOff : ReadAtFrom("ReadAt", n, a)

Read == \E n \in 0..MaxP : ReadAtFrom("Read", n, pos)

\* the mutant of Fill: the last of the n bytes is not stored
FillButLast(dst, body, n) == [i \in 1..Len(dst) |-> IF i < n THEN body[i] ELSE dst[i]]

\* dst with its first n bytes replaced by the first n bytes of the body
Fill(dst, body, n) == [i \in 1..Len(dst) |-> IF i <= n THEN body[i] ELSE dst[i]]

\* the mutant of RefillFailed: any error of the refill ends the read
RefillFailedAny(n, e) == e # "nil"

\* the mutant of RefillFailed: the loop goes on after a refill without a byte
RefillFailedNever(n, e) == FALSE

\* 'err != nil && n == 0' after the refill: the read ends with the error
\* only when the refill brought no byte
RefillFailed(n, e) == e # "nil" /\ n = 0

\* readAt after do has returned, and the rest of readFromBuffer
ReadAfterDo ==
    /\ pc = "do_ret" /\ op \in {"Read", "ReadAt"}
    /\ LET dl == IF mode = "refill" THEN Len(Buffer) ELSE Len(p) - ppos
           ne == ReadAtResult(res, dl)
           n == ne[1]
       IN  IF mode = "refill"
           THEN IF RefillFailed(n, ne[2])
                THEN /\ bstart' = 0 /\ bend' = 0
                     /\ Buffer' = Resident(Fill(Buffer, res.body, n), 0, 0)
                     /\ UNCHANGED <<p, ppos, bpos, mode>>
                     /\ Finish(op, 0, ne[2])
                ELSE LoopPass(op, Fill(Buffer, res.body, n), p, ppos, bpos, 0, n)
           ELSE /\ p' = [i \in 1..Len(p) |->
                            IF ppos < i /\ i <= ppos + n THEN res.body[i - ppos] ELSE p[i]]
                /\ Finish(op, n, ne[2])
                /\ UNCHANGED <<Buffer, ppos, bpos, bstart, bend, mode>>
    /\ UNCHANGED <<hcvars, retrying, sklocals, nclose, Url, origUrl, client, len, BufferSet, op, off,
                   drop, redirect, retry, res, reqUrl, obs, honest>>

(***************************************************************************)
(* Close, Seek, and the return to the caller                               *)
(***************************************************************************)
\* the mutant of Close: the length survives the Close
CloseKeepsLen ==
    /\ pc = "idle" /\ client # "unopened"
    /\ op' = "Close"
    /\ client' = "nil" /\ pos' = -1
    /\ pc' = "done" /\ retN' = 0 /\ retErr' = "nil"
    /\ nclose' = Bump(nclose)
    /\ seqStart' = -1 /\ seqGot' = <<>>
    /\ UNCHANGED <<hcvars, retrying, sklocals, Url, origUrl, len, buf, dolocals, rdlocals, obs,
                   honest>>

Close ==
    /\ pc = "idle" /\ client # "unopened"
    /\ op' = "Close"
    /\ client' = "nil" /\ pos' = -1 /\ len' = -1
    /\ pc' = "done" /\ retN' = 0 /\ retErr' = "nil"
    /\ nclose' = Bump(nclose)
    /\ seqStart' = -1 /\ seqGot' = <<>>
    /\ UNCHANGED <<hcvars, retrying, sklocals, Url, origUrl, buf, dolocals, rdlocals, obs, honest>>

\* the mutant of newpos: the target is clamped to the length
newposClamped(o, w) ==
    IF client = "nil" THEN -1
    ELSE IF w = 0 THEN Min(o, len)
    ELSE IF w = 1 THEN Min(pos + o, len)
    ELSE IF w = 2 THEN Min(len + o, len)
    ELSE -1

\* the mutant of newpos: an unknown whence is taken as from-start
newposAnyWhence(o, w) ==
    IF client = "nil" THEN -1
    ELSE IF w = 1 THEN pos + o
    ELSE IF w = 2 THEN len + o
    ELSE o

\* the target of Seek(offset, whence)
newpos(o, w) ==
    IF client = "nil" THEN -1
    ELSE IF w = 0 THEN o
    ELSE IF w = 1 THEN pos + o
    ELSE IF w = 2 THEN len + o
    ELSE -1

\* the mutant of Valid: a target of -1 is accepted
ValidFromMinusOne(np) == np >= -1

\* the target of a Seek is acceptable: not 'newpos < 0'
Valid(np) == np >= 0

\* the mutant of Seek: a Seek that also empties the buffer window
SeekDropsBuffer ==
    /\ pc = "idle" /\ client # "unopened"
    /\ \E o \in (0 - MaxOff)..MaxOff, w \in 0..3 :
        /\ newpos(o, w) <= MaxOff
        /\ offset' = o /\ whence' = w
        /\ op' = "Seek"
        /\ pc' = "done"
        /\ IF ~Valid(newpos(o, w))
           THEN retN' = 0 /\ retErr' = "ErrInvalid" /\ UNCHANGED <<pos, run>>
           ELSE /\ pos' = newpos(o, w) /\ retN' = newpos(o, w)
                /\ retErr' = "nil"
                /\ seqStart' = IF honest THEN newpos(o, w) ELSE seqStart
                /\ seqGot' = <<>>
    /\ bstart' = 0 /\ bend' = 0
    /\ UNCHANGED <<hcvars, retrying, nclose, Url, origUrl, client, len, BufferSet, Buffer, bpos,
                   dolocals, rdlocals, obs, honest>>

\* Seek(o, w); o and w are kept in offset and whence until the call returns
Seek ==
    /\ pc = "idle" /\ client # "unopened"
    /\ \E o \in (0 - MaxOff)..MaxOff, w \in 0..3 :
        /\ newpos(o, w) <= MaxOff
        /\ offset' = o /\ whence' = w
        /\ op' = "Seek"
        /\ pc' = "done"
        /\ IF ~Valid(newpos(o, w))
           THEN retN' = 0 /\ retErr' = "ErrInvalid" /\ UNCHANGED <<pos, run>>
           ELSE /\ pos' = newpos(o, w) /\ retN' = newpos(o, w)
                /\ retErr' = "nil"
                /\ seqStart' = IF honest THEN newpos(o, w) ELSE seqStart
                /\ seqGot' = <<>>
    /\ UNCHANGED <<hcvars, retrying, nclose, Url, origUrl, client, len, buf, dolocals, rdlocals,
                   obs, honest>>

\* the method has returned: its locals are gone
Return ==
    /\ pc = "done"
    /\ pc' = "idle" /\ op' = "none"
    /\ method' = "" /\ range' = <<>> /\ reqUrl' = "" /\ redirect' = FALSE /\ retry' = 0 /\ res' = NoRes
    /\ p' = <<>> /\ off' = 0 /\ ppos' = 0 /\ drop' = 0 /\ mode' = "plain"
    /\ offset' = 0 /\ whence' = 0
    /\ retN' = 0 /\ retErr' = "nil"
    /\ nreq' = 0 /\ nsleep' = 0 /\ nredir' = 0 /\ nexp' = 0 /\ reqs' = 0
    /\ honest' = (honest \/ client = "unopened")
    /\ seqStart' = IF client = "unopened" THEN 0 ELSE seqStart
    /\ UNCHANGED <<hcvars, retrying, nclose, file, buf, seqGot>>

Next ==
    \/ OpenHttpFile \/ OpenAfterDo \/ SetBuffer
    \/ DoBuild \/ DoLoop
    \/ Read \/ ReadAt \/ ReadAfterDo
    \/ Seek \/ Close \/ Return

\* the stream against a server that answers every request finally
Spec == Init /\ [][Next]_vars

\* the fetch protocol: an unbuffered stream read with ReadAt, against a
\* server that may also redirect and throttle
NextFetch ==
    \/ OpenHttpFile \/ OpenAfterDo
    \/ DoBuild \/ DoLoop
    \/ ReadAt \/ ReadAfterDo
    \/ Close \/ Return

SpecFetch == InitFetch /\ [][NextFetch]_vars

\* the program does not stop in the middle of a call
FairFetch == SpecFetch /\ WF_vars(OpenAfterDo \/ DoBuild \/ DoLoop \/ ReadAfterDo \/ Return)

(***************************************************************************)
(* HttpClient: the redirect policy it gives to http.Client as              *)
(* CheckRedirect, HttpClient.Do, and the logging transport.  One call of   *)
(* Do is the call, one step per request that http.Client sends, the return *)
(* of http.Client.Do and the return of HttpClient.Do.                      *)
(***************************************************************************)
RedirectLimit == 10

\* the caller assigns the exported fields FollowRedirects and HeadRedirects
SetRedirectPolicy ==
    /\ hcpc = "idle"
    /\ \E fr \in BOOLEAN, h \in BOOLEAN :
        /\ FollowRedirects' = fr
        /\ HeadRedirects' = h
    /\ hcop' = "none" /\ logArgs' = <<>>
    /\ UNCHANGED <<filevars, Transport, hcpc, hcMethod, via, hdrs, clientRes, hcRet>>

\* SetTransport(tr) with a plain transport
SetTransport ==
    /\ hcpc = "idle"
    /\ \E t \in Transports : Transport' = PlainTransport(t)
    /\ hcop' = "SetTransport" /\ logArgs' = <<>>
    /\ UNCHANGED <<filevars, FollowRedirects, HeadRedirects, hcpc, hcMethod, via, hdrs,
                   clientRes, hcRet>>

\* LoggedTransport(t, requestBody, responseBody, timing) for the plain transport T
LoggedTransport(T, requestBody, responseBody, timing) ==
    [logging |-> TRUE, t |-> T.t, requestBody |-> requestBody,
     responseBody |-> responseBody, timing |-> timing]

\* StartLogging(requestBody, responseBody, timing)
StartLogging ==
    /\ hcpc = "idle"
    /\ \E requestBody \in BOOLEAN, responseBody \in BOOLEAN, timing \in BOOLEAN :
        /\ logArgs' = <<requestBody, responseBody, timing>>
        /\ Transport' =
              IF Transport.logging
              THEN [Transport EXCEPT !.requestBody = requestBody,
                                     !.responseBody = responseBody, !.timing = timing]
              ELSE LoggedTransport(Transport, TRUE, TRUE, TRUE)
    /\ hcop' = "StartLogging"
    /\ UNCHANGED <<filevars, FollowRedirects, HeadRedirects, hcpc, hcMethod, via, hdrs,
                   clientRes, hcRet>>

\* StopLogging()
StopLogging ==
    /\ hcpc = "idle"
    /\ Transport' = IF Transport.logging THEN PlainTransport(Transport.t) ELSE Transport
    /\ hcop' = "StopLogging" /\ logArgs' = <<>>
    /\ UNCHANGED <<filevars, FollowRedirects, HeadRedirects, hcpc, hcMethod, via, hdrs,
                   clientRes, hcRet>>

\* the mutant of checkRedirect: a HEAD request is redirected like any other
checkRedirectHead(m, n) ==
    IF ~FollowRedirects THEN "NoRedirect"
    ELSE IF n >= RedirectLimit THEN "TooManyRedirects"
    ELSE "nil"

\* the mutant of checkRedirect: the limit is tested with '>'
checkRedirectOver(m, n) ==
    IF ~FollowRedirects THEN "NoRedirect"
    ELSE IF m = "HEAD" /\ ~HeadRedirects THEN "NoRedirect"
    ELSE IF n > RedirectLimit THEN "TooManyRedirects"
    ELSE "nil"

\* checkRedirect(req, via) for req.Method = m and len(via) = n: the error it returns
checkRedirect(m, n) ==
    IF ~FollowRedirects THEN "NoRedirect"
    ELSE IF m = "HEAD" /\ ~HeadRedirects THEN "NoRedirect"
    ELSE IF n >= RedirectLimit THEN "TooManyRedirects"
    ELSE "nil"

\* Do(req) up to the first request of self.client.Do(req)
DoCall ==
    /\ hcpc = "idle"
    /\ \E m \in {"GET", "HEAD"} : hcMethod' = m
    /\ hcop' = "Do" /\ hcpc' = "send" /\ logArgs' = <<>>
    /\ via' = 0 /\ hdrs' = 0 /\ clientRes' = NoResp /\ hcRet' = NoResp
    /\ UNCHANGED <<filevars, FollowRedirects, HeadRedirects, Transport>>

\* http.Client sends the request and gets an answer: a transport error, a
\* final response, or a 30x, for which it asks checkRedirect with the
\* requests sent so far and follows the redirect when that returns nil
ClientSend ==
    /\ hcpc = "send"
    /\ via' = via + 1
    /\ \E a \in {"neterr", "final", "redirect"} :
        IF a = "neterr"
        THEN clientRes' = [st |-> 0, err |-> "neterr"] /\ hcpc' = "ret" /\ UNCHANGED hdrs
        ELSE IF a = "final"
        THEN clientRes' = [st |-> 200, err |-> "nil"] /\ hcpc' = "ret" /\ UNCHANGED hdrs
        ELSE LET e == checkRedirect(hcMethod, via + 1)
             IN  IF e = "nil"
                 THEN hdrs' = hdrs + 1 /\ hcpc' = "send" /\ UNCHANGED clientRes
                 ELSE clientRes' = [st |-> 302, err |-> e] /\ hcpc' = "ret" /\ UNCHANGED hdrs
    /\ UNCHANGED <<filevars, FollowRedirects, HeadRedirects, Transport, hcop, hcMethod, hcRet,
                   logArgs>>

\* what Do returns for resp and err of self.client.Do: NoRedirect is not an
\* error, any other error is returned with a nil response
DoResult(r) ==
    LET err == IF r.err = "NoRedirect" THEN "nil" ELSE r.err
    IN  IF err = "nil" THEN [st |-> r.st, err |-> "nil"] ELSE [st |-> 0, err |-> err]

\* Do(req) after self.client.Do(req) has returned
DoReturn ==
    /\ hcpc = "ret"
    /\ hcRet' = DoResult(clientRes)
    /\ hcpc' = "done"
    /\ UNCHANGED <<filevars, FollowRedirects, HeadRedirects, Transport, hcop, hcMethod, via,
                   hdrs, clientRes, logArgs>>

\* Do has returned: its locals are gone
DoDone ==
    /\ hcpc = "done"
    /\ hcpc' = "idle" /\ hcop' = "none"
    /\ hcMethod' = "" /\ via' = 0 /\ hdrs' = 0 /\ clientRes' = NoResp /\ hcRet' = NoResp
    /\ UNCHANGED <<filevars, FollowRedirects, HeadRedirects, Transport, logArgs>>

NextClient ==
    \/ SetRedirectPolicy \/ SetTransport \/ StartLogging \/ StopLogging
    \/ DoCall \/ ClientSend \/ DoReturn \/ DoDone

\* an HttpClient and its callers
SpecClient == Init /\ [][NextClient]_vars

(***************************************************************************)
(* Properties of the fetch protocol (HttpFile.do), checked under SpecFetch *)
(* and FairFetch.                                                          *)
(***************************************************************************)

\* C1: within one call of do at most one redirect is followed; a second
\* redirect response is returned to the caller, not followed.
C1_AtMostOneRedirect == nredir <= 1

\* C2: every call of do terminates (returns to its caller), whatever the
\* server answers.
C2_FetchTerminates == (pc \in {"retry_redir", "loop"}) ~> (pc = "do_ret")

\* C3: within one call of do the expiry recovery (Url reset to origUrl and
\* the fetch restarted) happens at most once.
C3_ExpiryRecoveryOnce == nexp <= 1

\* every attempt of the running call of do has been answered by the throttling 403
OnlyThrottled == nredir = 0 /\ nexp = 0 /\ nreq > 0 /\ retry = nreq

\* C4: when every attempt is answered by the throttling 403, one call of do
\* makes at most HttpFileRetries attempts, sleeps once after each attempt
\* that another attempt follows and not after the last one, and returns the
\* 403, which OpenHttpFile and readAt report as an error, with no data.
C4_ThrottleBudget ==
    (pc \in {"loop", "do_ret", "done"} /\ OnlyThrottled) =>
        /\ nreq <= HttpFileRetries
        /\ pc = "loop" => nsleep = nreq /\ nreq < HttpFileRetries
        /\ pc # "loop" =>
              /\ nreq = HttpFileRetries /\ nsleep = nreq - 1
              /\ res = Throttled
        /\ pc = "done" =>
              /\ retN = 0 /\ retErr = "UnexpectedStatus"
              /\ p = Zeros(Len(p))
              /\ op = "Open" => client = "unopened"

C4_Witness ==
    /\ pc = "done" /\ op = "ReadAt" /\ OnlyThrottled
    /\ nreq = HttpFileRetries /\ nsleep = HttpFileRetries - 1
    /\ res = Throttled /\ retErr = "UnexpectedStatus"

\* C5: when the first k attempts are throttled (k < HttpFileRetries) and
\* attempt k+1 is answered by the 206 for the requested range, do returns
\* that 206 after exactly k sleeps and the read that issued it succeeds.
C5_ThrottledThenSuccess ==
    (/\ pc = "done" /\ op = "ReadAt"
     /\ nredir = 0 /\ nexp = 0 /\ nreq = retry + 1 /\ retry < HttpFileRetries
     /\ res.st = 206 /\ res = HonestResponse(method, range)) =>
        nsleep = retry /\ retErr = "nil"

(***************************************************************************)
(* Properties of the stream, checked under Spec.                           *)
(***************************************************************************)
\* the bytes of the resource from offset a to its end
DataFrom(a) == [i \in 1..(IF a < ResLen THEN ResLen - a ELSE 0) |-> Data[a + i]]

\* C6: with a Buffer and a server that honours range requests, consecutive
\* Reads deliver the resource's bytes in order, and when end-of-stream is
\* signalled they have delivered every byte from the starting cursor to the
\* last byte of the resource.
C6_BufferTransparency ==
    (pc = "done" /\ op = "Read" /\ client = "open" /\ BufferSet /\ honest) =>
        /\ seqGot = SubSeq(DataFrom(seqStart), 1, Len(seqGot))
        /\ retErr = "EOF" => seqGot = DataFrom(seqStart)

\* C7: ReadAt of n > 0 bytes at off with off + n <= length, against a server
\* that honours range requests, returns n, no error and the resource's bytes
\* at [off, off+n), with or without a Buffer.
C7_ReadAtExact ==
    (pc = "done" /\ op = "ReadAt" /\ honest /\ Len(p) > 0 /\ off + Len(p) <= len) =>
        /\ retN = Len(p) /\ retErr = "nil"
        /\ p = [i \in 1..Len(p) |-> Data[off + i]]

\* the last fetch told readAt that the stream has ended: readAt returned (0, io.EOF)
SourceEOF ==
    /\ res.err = "nil"
    /\ res.st = 416 \/ (res.st = 206 /\ res.body = <<>> /\ res.bodyEnd = "EOF")

\* C8: when readFromBuffer meets end-of-stream after it has copied ppos > 0
\* bytes into the destination, it returns ppos and no error.
C8_PartialCountAtEOF ==
    (pc = "done" /\ op \in {"Read", "ReadAt"} /\ BufferSet /\ ppos > 0 /\ SourceEOF) =>
        retN = ppos /\ retErr = "nil"

\* C9: a readAt whose destination reaches past the end of the resource
\* (off < length < off + len(p)), answered by the 206 for the clamped range,
\* returns length - off and no error.
C9_ShortReadAtEnd ==
    (/\ pc = "done" /\ op \in {"Read", "ReadAt"} /\ mode \in {"plain", "direct"}
     /\ Len(range) = 2 /\ res.st = 206 /\ res = HonestResponse(method, range)
     /\ range[1] < len /\ len < range[1] + (Len(p) - ppos)) =>
        retN = len - range[1] /\ retErr = "nil"

\* C10: on an open stream whose length was probed correctly, a read with a
\* non-empty destination at an offset off >= length returns 0 bytes and
\* io.EOF, never another error.  Stated for the requests that the server
\* answers as RFC 7233 lets it answer a range that starts past the end or
\* whose last byte precedes its first: with 416, or with 200 and no range.
C10_ReadPastEnd ==
    (pc = "done" /\ op \in {"Read", "ReadAt"} /\ client = "open" /\ Len(p) > 0
     /\ len = ResLen /\ off >= len /\ res.err = "nil" /\ res.st \in {200, 416}) =>
        retN = 0 /\ retErr = "EOF"

\* C11: readAt turns a 416 into 0 bytes and io.EOF, every other status but
\* 206 into 0 bytes and an 'Unexpected Status' error, and reads the body of
\* a 206 only: the part of the destination handed to readAt stays untouched,
\* and so does the Buffer when readAt was refilling it.
C11_StatusMapping ==
    (/\ pc = "done" /\ op \in {"Read", "ReadAt"} /\ reqs > 0
     /\ res.err = "nil" /\ res.st # 206) =>
        /\ retN = 0
        /\ retErr = IF res.st = 416 THEN "EOF" ELSE "UnexpectedStatus"
        /\ \A i \in (ppos + 1)..Len(p) : p[i] = 0
        /\ mode = "refill" => bstart = 0 /\ bend = 0

C11_Witness ==
    /\ pc = "done" /\ op = "ReadAt" /\ mode = "plain" /\ reqs > 0
    /\ res.st = 200 /\ res.body = Data /\ retN = 0 /\ retErr = "UnexpectedStatus"

\* C12: after Close every Read, ReadAt and Seek with a non-empty destination
\* fails with os.ErrInvalid and delivers no data, also when the Buffer still
\* holds bytes fetched before the Close.
C12_ClosedFails ==
    (/\ pc = "done" /\ client = "nil"
     /\ (op = "Seek" \/ (op \in {"Read", "ReadAt"} /\ Len(p) > 0))) =>
        /\ retErr = "ErrInvalid" /\ retN = 0
        /\ p = Zeros(Len(p))

\* C13: Close drops the client, sets cursor and length to -1, returns no
\* error and touches nothing else, the first time and every later time; once
\* closed, the stream stays closed and its length stays -1.
C13_CloseIdempotent ==
    [][/\ (pc = "idle" /\ op' = "Close") =>
            /\ client' = "nil" /\ pos' = -1 /\ len' = -1
            /\ retErr' = "nil"
            /\ UNCHANGED <<Url, origUrl, buf>>
       /\ client = "nil" => client' = "nil" /\ len' = -1]_vars

C13_Witness ==
    /\ pc = "done" /\ op = "Close" /\ nclose = 2
    /\ client = "nil" /\ pos = -1 /\ len = -1 /\ retErr = "nil"

\* C14: the status of the size probe decides the outcome of OpenHttpFile:
\* 200 gives a stream with the response's Content-Length as its length, 206
\* one with the total of 'Content-Range: bytes first-last/total', both with
\* cursor 0; 404 fails with os.ErrNotExist and every other status with an
\* 'Unexpected Status' error, and a failed open returns no stream.
C14_OpenOutcome ==
    (pc = "done" /\ op = "Open" /\ res.err = "nil") =>
        /\ res.st = 200 =>
              client = "open" /\ retErr = "nil" /\ len = res.clen /\ pos = 0
        /\ (res.st = 206 /\ Len(res.cr) = 3) =>
              client = "open" /\ retErr = "nil" /\ len = res.cr[3] /\ pos = 0
        /\ res.st = 404 => client = "unopened" /\ retErr = "ErrNotExist"
        /\ res.st \notin {200, 206, 404} =>
              client = "unopened" /\ retErr = "UnexpectedStatus"

C14_Witness ==
    /\ pc = "done" /\ op = "Open" /\ method = "GET" /\ range = <<0, 0>>
    /\ res.st = 206 /\ res.cr = <<0, 0, ResLen>>
    /\ client = "open" /\ len = ResLen /\ pos = 0 /\ retErr = "nil"

\* the target of the Seek that is being called, from the state before the call
Target ==
    IF whence' = 0 THEN offset'
    ELSE IF whence' = 1 THEN pos + offset'
    ELSE len + offset'

\* C15: on an open stream Seek(offset, whence) with whence from-start,
\* from-current or from-end moves the cursor to offset, cursor + offset or
\* length + offset and returns it with no error when that target is >= 0,
\* also when it lies beyond the length; when the target is < 0 it fails with
\* os.ErrInvalid.
C15_SeekTarget ==
    [][(pc = "idle" /\ op' = "Seek" /\ client = "open" /\ whence' \in 0..2) =>
          IF Target >= 0
          THEN pos' = Target /\ retN' = Target /\ retErr' = "nil"
          ELSE retErr' = "ErrInvalid"]_vars

C15_Witness ==
    /\ pc = "done" /\ op = "Seek" /\ client = "open" /\ len = ResLen
    /\ whence = 2 /\ offset > 0 /\ pos = len + offset /\ retN = pos /\ retErr = "nil"

\* C16 as stated: on a stream that has been opened and not closed, and whose
\* length was learnt by the probe, 0 <= cursor <= length.
C16_CursorWithinLength ==
    (client = "open" /\ op # "Open" /\ len >= 0) => 0 <= pos /\ pos <= len

\* C16 amended: on a stream that has been opened and not closed the cursor is
\* never negative; it exceeds the length after a Seek beyond the end.
C16_CursorNotNegative ==
    (client = "open" /\ op # "Open") => 0 <= pos

C16_Witness ==
    /\ pc = "done" /\ op = "Read" /\ client = "open" /\ Len(p) > 0
    /\ len = ResLen /\ pos > len

\* C17: the window of a stream with a Buffer satisfies
\* 0 <= bstart <= bend <= len(Buffer), and the bytes Buffer[bstart:bend] are
\* the resource's bytes at [bpos, bpos + (bend - bstart)), in every state,
\* also after calls that fail or meet the end of the resource.
C17_BufferWindow ==
    BufferSet =>
        /\ 0 <= bstart /\ bstart <= bend /\ bend <= Len(Buffer)
        /\ \A i \in 1..(bend - bstart) :
              /\ 0 <= bpos /\ bpos + i <= ResLen
              /\ Buffer[bstart + i] = Data[bpos + i]

C17_Witness ==
    /\ pc = "done" /\ op = "Read" /\ BufferSet /\ retErr = "nil"
    /\ 0 < bstart /\ bstart < bend /\ bpos > 1
    /\ Buffer[bstart + 1] = Data[bpos + 1]

\* C18: no step of a ReadAt call changes the cursor, whether the call
\* succeeds, fails or meets the end of the resource.
C18_ReadAtKeepsCursor ==
    [][(op = "ReadAt" \/ op' = "ReadAt") => pos' = pos]_vars

C18_Witness ==
    /\ pc = "done" /\ op = "ReadAt" /\ client = "open"
    /\ retN > 0 /\ retErr = "nil" /\ pos > 0 /\ pos # off /\ pos # off + retN

\* C19 as stated: no step of a ReadAt call changes the buffer window or the
\* buffered bytes.
C19_ReadAtKeepsBuffer ==
    [][(op = "ReadAt" \/ op' = "ReadAt") => UNCHANGED <<bpos, bstart, bend, Buffer>>]_vars

\* C19 amended: ReadAt leaves the buffer window alone and fetches every byte
\* it delivers from the server on a stream without a Buffer; with a Buffer
\* it goes through the buffer as Read does.
C19_UnbufferedReadAt ==
    [][((op = "ReadAt" \/ op' = "ReadAt") /\ ~BufferSet) =>
          /\ UNCHANGED <<bpos, bstart, bend, Buffer>>
          /\ (pc' = "done" /\ retN' > 0) => reqs' > 0]_vars

C19_Witness ==
    /\ pc = "done" /\ op = "ReadAt" /\ ~BufferSet /\ client = "open"
    /\ retN = Len(p) /\ retN > 1 /\ reqs = 1 /\ bpos = 0 /\ off > 0

\* C20: Seek sends no request and changes nothing but the cursor: length,
\* Url, origUrl, the client and the buffer stay as they are.
C20_SeekFrame ==
    [][(pc = "idle" /\ op' = "Seek") =>
          /\ pc' = "done" /\ reqs' = 0
          /\ UNCHANGED <<Url, origUrl, client, len, buf>>]_vars

C20_Witness ==
    /\ pc = "done" /\ op = "Seek" /\ client = "open" /\ retErr = "nil"
    /\ BufferSet /\ bstart < bend /\ pos # bpos /\ reqs = 0

\* C21: Read(p) reads at the cursor (the offset it hands to ReadAt is the
\* cursor), and the step on which it returns moves the cursor forward by
\* exactly the count it returns, with or without an error; a Read that
\* returns 0 and every earlier step of the call leave the cursor alone.
C21_ReadAdvances ==
    [][(op' = "Read" /\ pc # "done") =>
          /\ pc = "idle" => off' = pos
          /\ pos' = IF pc' = "done" /\ retN' > 0 THEN pos + retN' ELSE pos]_vars

C21_Witness ==
    /\ pc = "done" /\ op = "Read" /\ client = "open"
    /\ retN > 0 /\ retN < Len(p) /\ retErr \in {"ErrUnexpectedEOF", "neterr"}
    /\ pos = off + retN

\* the destination of the readAt that is outstanding: its offset and its size
ReadAtOff == IF mode = "plain" THEN off ELSE bpos
ReadAtLen == IF mode = "refill" THEN Len(Buffer) ELSE Len(p) - ppos

\* C22: while a request of readAt is outstanding it is a GET for a non-empty
\* destination, and when the destination's offset is below the length its
\* Range header is bytes=off-E with E = min(off + len(p), length) - 1: the
\* range starts at off and ends at or before length - 1.
C22_RangeHeader ==
    (pc \in {"retry_redir", "loop", "do_ret"} /\ op \in {"Read", "ReadAt"}) =>
        /\ method = "GET" /\ ReadAtLen > 0
        /\ ReadAtOff < len =>
              /\ range = <<ReadAtOff, Min(ReadAtOff + ReadAtLen, len) - 1>>
              /\ range[1] = ReadAtOff /\ range[1] <= range[2] /\ range[2] <= len - 1

C22_Witness ==
    /\ pc = "loop" /\ op = "ReadAt" /\ mode = "plain" /\ Len(p) > 1
    /\ off < len /\ off + Len(p) > len /\ range = <<off, len - 1>>

\* readAt(f.Buffer, f.bpos) is about to return from a 206 whose body broke
\* off before the buffer was full: io.ReadFull has stored the bytes received
\* and reports them with the error of the connection
RefillBroken ==
    /\ pc = "do_ret" /\ op \in {"Read", "ReadAt"} /\ mode = "refill"
    /\ res.err = "nil" /\ res.st = 206 /\ res.bodyEnd = "broken"
    /\ Len(res.body) < Len(Buffer)

\* C23 as stated: the bytes received by a refill that failed part-way are
\* discarded: the window does not grow by them and the destination gets
\* none of them.
C23_PartialDiscarded ==
    [][(RefillBroken /\ Len(res.body) > 0) =>
          /\ bend' - bstart' = 0
          /\ p' = p /\ ppos' = ppos]_vars

\* C23 amended: the n > 0 bytes received by a refill that failed part-way
\* are committed as the window [0, n): the loop serves the destination from
\* them, keeps the rest in the window, and the error of the fetch is
\* dropped; only a refill that failed with no byte received leaves the
\* window empty and ends the read with the error.
C23_PartialCommitted ==
    [][RefillBroken =>
          LET n == Len(res.body)
              k == Min(Len(p) - ppos, n)
          IN  IF n > 0
              THEN /\ ppos' = ppos + k /\ bpos' = bpos + k
                   /\ bstart' = k /\ bend' = n
                   /\ \A i \in 1..n :
                         IF i <= k THEN p'[ppos + i] = res.body[i]
                         ELSE Buffer'[i] = res.body[i]
                   /\ pc' = "done" => retN' = Len(p) /\ retErr' = "nil"
              ELSE /\ pc' = "done" /\ retErr' = "neterr"
                   /\ bstart' = 0 /\ bend' = 0 /\ p' = p]_vars

C23_Witness ==
    /\ pc = "done" /\ op = "Read" /\ mode = "refill"
    /\ res.st = 206 /\ res.bodyEnd = "broken"
    /\ Len(res.body) > 0 /\ Len(res.body) < Len(Buffer)
    /\ retN = Len(p) /\ retErr = "nil"
    /\ bstart > 0 /\ bend = Len(res.body) /\ bstart < bend

\* C24: a 206 whose Content-Range is not "bytes %d-%d/%d" is fatal for the
\* call that received it: OpenHttpFile fails with the parse error and returns
\* no stream, and readAt (here: a read on a stream without a Buffer) returns
\* the parse error and delivers no byte of the body.
C24_ContentRangeFatal ==
    (pc = "done" /\ res.err = "nil" /\ res.st = 206 /\ Len(res.cr) # 3) =>
        /\ op = "Open" => client = "unopened" /\ retErr = "ParseError"
        /\ (op \in {"Read", "ReadAt"} /\ mode = "plain") =>
              retErr = "ParseError" /\ retN = 0 /\ p = Zeros(Len(p))

\* the answer r to a request for Url is one that do handles itself: a
\* redirect, a throttling 403, or an expiry 403 it can recover from
Handled(r) ==
    \/ r.err = "NoRedirect"
    \/ r.err = "nil" /\ r.st = 403 /\ r.xcache
    \/ r.err = "nil" /\ r.st = 403 /\ r.amz /\ ~r.readErr /\ r.expired /\ Url # origUrl

\* C25: when a request of do is answered by anything else (a transport
\* error, or a status that is none of the handled ones, such as 500, 404 or
\* a plain 403), do returns that answer at once: no further request, no
\* sleep, no change of the current URL.
C25_OtherFailuresReturn ==
    [][(pc = "loop" /\ res' # res /\ ~Handled(res')) =>
          /\ pc' = "do_ret"
          /\ nreq' = nreq + 1
          /\ UNCHANGED <<Url, origUrl, nsleep, retry, redirect>>]_vars

C25_Witness ==
    /\ pc = "do_ret" /\ op = "ReadAt" /\ nredir = 1 /\ Url # origUrl
    /\ res.err = "nil" /\ res.st = 403 /\ ~res.xcache /\ res.amz /\ res.expired /\ res.readErr
    /\ nreq = 1 /\ nsleep = 0

(***************************************************************************)
(* Properties of HttpClient, checked under SpecClient.                     *)
(***************************************************************************)

\* the redirect policy refuses every redirect of the running Do
PolicyRefuses == ~FollowRedirects \/ (hcMethod = "HEAD" /\ ~HeadRedirects)

\* C26: when FollowRedirects is false, and for a HEAD request when
\* HeadRedirects is false, no redirect is followed (the only request sent
\* is the caller's), and a 30x answer is returned by HttpClient.Do as it
\* is, with a nil error.
C26_RedirectNotFollowed ==
    (hcop = "Do" /\ PolicyRefuses) =>
        /\ via <= 1 /\ hdrs = 0
        /\ (hcpc \in {"ret", "done"} /\ clientRes.st = 302) => clientRes.err = "NoRedirect"
        /\ (hcpc = "done" /\ clientRes.st = 302) => hcRet = [st |-> 302, err |-> "nil"]

C26_Witness ==
    /\ hcpc = "done" /\ hcMethod = "HEAD" /\ FollowRedirects /\ ~HeadRedirects
    /\ via = 1 /\ clientRes = [st |-> 302, err |-> "NoRedirect"]
    /\ hcRet = [st |-> 302, err |-> "nil"]

\* C27: when redirects are followed, one Do follows at most 10 of them: the
\* redirect met when 10 requests have been sent is refused with
\* TooManyRedirects, which Do returns as an error with a nil response, and
\* the client's headers are added to the request of every followed hop.
C27_RedirectLimit ==
    (hcop = "Do" /\ ~PolicyRefuses) =>
        /\ hdrs <= RedirectLimit /\ via <= RedirectLimit
        /\ hdrs = IF hcpc = "send" THEN via ELSE via - 1
        /\ (hcpc \in {"ret", "done"} /\ clientRes.st = 302) =>
              via = RedirectLimit /\ clientRes.err = "TooManyRedirects"
        /\ (hcpc = "done" /\ clientRes.err = "TooManyRedirects") =>
              hcRet = [st |-> 0, err |-> "TooManyRedirects"]

C27_Witness ==
    /\ hcpc = "done" /\ hcMethod = "HEAD" /\ FollowRedirects /\ HeadRedirects
    /\ via = RedirectLimit /\ hdrs = RedirectLimit - 1
    /\ hcRet = [st |-> 0, err |-> "TooManyRedirects"]

\* C28: StartLogging(requestBody, responseBody, timing) leaves one logging
\* transport around the plain transport in effect, with the three flags
\* equal to the three arguments, whether or not logging was on; StopLogging
\* puts that plain transport back, and changes nothing when logging is off.
C28_Logging ==
    [][/\ (hcpc = "idle" /\ hcop' = "StartLogging") =>
             Transport' = LoggedTransport(PlainTransport(Transport.t),
                                          logArgs'[1], logArgs'[2], logArgs'[3])
       /\ (hcpc = "idle" /\ hcop' = "StopLogging") =>
             Transport' = PlainTransport(Transport.t)]_vars

BufferedFetch ==
    (pc \in {"retry_redir", "loop", "do_ret"} /\ op \in {"Read", "ReadAt"} /\ BufferSet) =>
        /\ bstart = bend /\ ppos < Len(p) /\ bpos = off + ppos /\ method = "GET"
        /\ mode = IF Len(p) - ppos > Len(Buffer) THEN "direct" ELSE "refill"
        /\ range = <<bpos, Min(bpos + ReadAtLen, len) - 1>>
        /\ mode = "direct" => bstart = 0 /\ bend = 0

\* C30: every fetch of a buffered read is issued with the resident bytes
\* used up and r > 0 bytes still needed, and is one of two kinds: for
\* r > len(Buffer) one readAt at bpos straight into the rest of the
\* destination, after which the read returns and the buffer is empty;
\* otherwise one readAt of len(Buffer) bytes at bpos into the buffer, from
\* which the loop then serves the destination.
C30_FetchKind ==
    [][/\ BufferedFetch'
       /\ (pc = "do_ret" /\ op \in {"Read", "ReadAt"} /\ BufferSet) =>
             LET n == ReadAtResult(res, ReadAtLen)[1]
                 k == Min(Len(p) - ppos, n)
             IN  IF mode = "direct"
                 THEN /\ pc' = "done" /\ bstart' = 0 /\ bend' = 0
                      /\ \A i \in 1..n : p'[ppos + i] = res.body[i]
                 ELSE /\ ppos' = ppos + k /\ bpos' = bpos + k
                      /\ \A i \in 1..n :
                            IF i <= k THEN p'[ppos + i] = res.body[i]
                            ELSE Buffer'[i] = res.body[i]
                      /\ bstart' = k /\ bend' = n]_vars

C30_Witness ==
    /\ pc = "loop" /\ op = "Read" /\ BufferSet /\ Len(Buffer) > 0
    /\ mode = "direct" /\ ppos > 0 /\ Len(p) - ppos > Len(Buffer)
    /\ bstart = 0 /\ bend = 0 /\ range[1] = bpos

\* C31: a Read at cursor = bpos whose destination is no larger than the
\* window (len(p) <= bend - bstart) sends no request, returns len(p) bytes of
\* the window with no error and advances the cursor, bpos and bstart by
\* len(p); and the m bytes a refill obtains are shared between the Read that
\* refilled and the window it leaves, so that Reads of m bytes in all are
\* served by that one refill.
C31_ServedFromWindow ==
    [][/\ (pc = "idle" /\ op' = "Read" /\ BufferSet /\ pos = bpos
            /\ Len(p') <= bend - bstart) =>
             /\ pc' = "done" /\ reqs' = 0
             /\ retN' = Len(p') /\ retErr' = "nil"
             /\ \A i \in 1..Len(p') : p'[i] = Buffer[bstart + i]
             /\ pos' = pos + Len(p') /\ bpos' = bpos + Len(p')
             /\ bstart' = bstart + Len(p') /\ bend' = bend
       /\ (pc = "do_ret" /\ op = "Read" /\ mode = "refill") =>
             LET m == ReadAtResult(res, Len(Buffer))[1]
             IN  (ppos' - ppos) + (bend' - bstart') = m]_vars

C31_Witness ==
    /\ pc = "done" /\ op = "Read" /\ BufferSet /\ client = "open" /\ honest
    /\ reqs = 0 /\ retN = Len(p) /\ retN > 0 /\ retErr = "nil"
    /\ Len(seqGot) > retN /\ bpos = pos /\ bstart >= retN

\* C32: the loop of readFromBuffer makes progress on every pass and ends:
\* the call itself returns or issues a fetch with bytes still to deliver; a
\* pass that follows a refill returns, or has got at least one byte from
\* the refill and copied at least one byte to the destination (ppos grows
\* and stays within len(p)); a direct fetch is followed by the return; and
\* the panic after the loop is never reached.
C32_LoopProgress ==
    [][/\ pc' # "panic"
       /\ (pc = "idle" /\ op' \in {"Read", "ReadAt"} /\ BufferSet) =>
             \/ pc' = "done"
             \/ pc' = "retry_redir" /\ ppos' < Len(p')
       /\ (pc = "do_ret" /\ op \in {"Read", "ReadAt"} /\ BufferSet) =>
             \/ pc' = "done"
             \/ /\ mode = "refill" /\ pc' = "retry_redir"
                /\ ReadAtResult(res, Len(Buffer))[1] >= 1
                /\ ppos < ppos' /\ ppos' < Len(p)]_vars

C32_Witness ==
    /\ pc = "done" /\ op = "Read" /\ BufferSet /\ mode = "refill"
    /\ reqs = 2 /\ ppos = Len(p) /\ ppos >= 2 /\ retN = ppos /\ retErr = "nil"

\* a request of do has just been answered by a 403 that is not the
\* throttling one and whose body holds the 'Request has expired' marker
ExpiredAnswer ==
    /\ pc = "loop" /\ res' # res
    /\ res'.err = "nil" /\ res'.st = 403 /\ ~res'.xcache /\ res'.expired

\* C33 as stated: a 403 whose body holds the expiry marker is recovered from
\* exactly when Url differs from origUrl: Url is reset to origUrl and the
\* fetch starts again; with Url = origUrl the 403 is returned and Url stays.
C33_ExpiryRecovery ==
    [][ExpiredAnswer =>
          IF Url # origUrl
          THEN Url' = origUrl /\ pc' = "retry_redir"
          ELSE Url' = Url /\ pc' = "do_ret"]_vars

\* C33 amended: the recovery happens exactly when, in addition, the 403
\* carries X-AMZ-Request-ID and its body was read without error: then Url
\* is reset to origUrl and the fetch starts again from the label (new
\* request, retry = 0, redirect = false); in every other case the 403 is
\* returned at once and Url stays.
C33_ExpiryRecoveryAmz ==
    [][/\ ExpiredAnswer =>
             IF Url # origUrl /\ res'.amz /\ ~res'.readErr
             THEN Url' = origUrl /\ pc' = "retry_redir"
             ELSE Url' = Url /\ pc' = "do_ret"
       /\ (pc = "retry_redir" /\ pc' # pc) =>
             pc' = "loop" /\ retry' = 0 /\ ~redirect' /\ nreq' = 0 /\ Url' = Url]_vars

C33_Witness ==
    /\ pc = "loop" /\ op = "ReadAt" /\ nexp = 1 /\ nredir = 1 /\ Url = origUrl
    /\ retry = 0 /\ ~redirect /\ nreq = 0

\* C34: on a stream that exists, origUrl never changes; Url changes only on
\* the answer to a request of do, either to the Location of the redirect
\* just received or, on an expiry 403, back to origUrl; between fetches it
\* stays, and every request of do is built for the current Url, so that a
\* fetch after a followed redirect starts at the redirect target.
C34_UrlProvenance ==
    [][/\ (client # "unopened" /\ client' # "unopened") =>
             /\ origUrl' = origUrl
             /\ Url' # Url =>
                   /\ pc = "loop"
                   /\ \/ res'.err = "NoRedirect" /\ Url' = res'.loc
                      \/ res'.err = "nil" /\ res'.st = 403 /\ res'.expired /\ Url' = origUrl
       /\ pc' = "loop" => reqUrl' = Url']_vars

C34_Witness ==
    /\ pc = "loop" /\ op = "ReadAt" /\ nredir = 0 /\ nexp = 0 /\ nreq = 0
    /\ Url # origUrl /\ reqUrl = Url

\* C35: once the stream is closed no step sends a request: every call of
\* Read, ReadAt and Seek returns without entering do, and the count of
\* requests stays at 0.
C35_NoRequestAfterClose ==
    [][client = "nil" =>
          /\ pc' \in {"idle", "done"}
          /\ reqs' = 0 /\ nreq' = 0]_vars

C35_Witness ==
    /\ pc = "done" /\ op = "Read" /\ client = "nil" /\ nclose >= 1
    /\ BufferSet /\ Len(Buffer) > 0 /\ Len(p) > Len(Buffer)
    /\ retErr = "ErrInvalid" /\ reqs = 0

\* C36: a Seek that fails returns position 0 with os.ErrInvalid and leaves
\* the cursor as it was; on an open stream Seek fails exactly when whence is
\* not 0, 1 or 2 (then for every offset) or the target is negative, and
\* otherwise moves the cursor to the target.
C36_SeekFailure ==
    [][(pc = "idle" /\ op' = "Seek") =>
          /\ retErr' # "nil" => retErr' = "ErrInvalid" /\ retN' = 0 /\ pos' = pos
          /\ client = "open" =>
                (retErr' # "nil") <=> (whence' \notin 0..2 \/ Target < 0)
          /\ retErr' = "nil" => pos' = Target /\ retN' = Target]_vars

C36_Witness ==
    /\ pc = "done" /\ op = "Seek" /\ client = "open" /\ len = ResLen
    /\ whence = 3 /\ offset > 0 /\ pos > 0 /\ pos # offset
    /\ retN = 0 /\ retErr = "ErrInvalid"

\* C37: a stream returned by a successful OpenHttpFile has length >= 0,
\* whatever probe response made the open succeed; the length is -1 only
\* when there is no stream or after Close.
C37_LengthKnown ==
    (client = "open" /\ ~(op = "Open" /\ pc # "done")) => len >= 0

====
